---- MODULE Spec2Model ----
(***************************************************************************)
(* A model of calculator.py: the interactive menu loop of main, the        *)
(* prompts of get_user_inputs, validate_inputs, execute_operation,         *)
(* store_calculation and update_daily_stats, and the two module-level      *)
(* dictionaries calculation_history and daily_stats.                       *)
(*                                                                         *)
(* Python floats are modelled as exact rationals extended with +inf, -inf  *)
(* and nan (float() accepts the texts "inf" and "nan"); rounding and       *)
(* overflow of finite values are outside the model.  A line typed by the   *)
(* user is a sequence of one-character strings.                            *)
(***************************************************************************)
EXTENDS Integers, Sequences, FiniteSets

VARIABLES
    calculation_history,  \* day -> the sequence of the day's calculation records
    daily_stats,          \* day -> the day's statistics
    pc,                   \* where main is: the prompt it waits at, or "Exited"
    choice,               \* main's choice: the last menu line, stripped
    num1, num2,           \* the numbers of the calculation in progress, or of the last
    operation,            \* its operation
    clock,                \* the instant the last read of the system clock returned
    output,               \* the last message printed (menus and prompts apart)
    lines,                \* the number of lines read from the terminal so far
    ev                    \* a call of execute_operation on its own: see SpecEval

vars ==
    <<calculation_history, daily_stats, pc, choice, num1, num2, operation, clock,
      output, lines, ev>>

(***************************************************************************)
(* Bounds of the model.                                                    *)
(***************************************************************************)
\* the user types at most this many lines in one session
MaxLines == 9
\* the last instant the system clock reaches; DayOf turns an instant into a day
MaxClock == 2

\* the range of a day of the month (main, choice '3')
MinDay == 1
MaxDay == 31

(***************************************************************************)
(* Floats.                                                                 *)
(***************************************************************************)
Abs(n) == IF n < 0 THEN -n ELSE n

Sign(n) == IF n < 0 THEN -1 ELSE IF n > 0 THEN 1 ELSE 0

RECURSIVE GCD(_, _)
GCD(a, b) == IF b = 0 THEN a ELSE GCD(b, a % b)

\* the finite float n/d (d # 0), in lowest terms with a positive denominator
Fin(n, d) ==
    LET g == GCD(Abs(n), Abs(d))
        s == IF d < 0 THEN -1 ELSE 1
    IN  [k |-> "fin", n |-> (s * n) \div g, d |-> Abs(d) \div g]

NaN == [k |-> "nan", n |-> 0, d |-> 1]

\* float('inf') is Inf(1), float('-inf') is Inf(-1)
Inf(s) == [k |-> "inf", n |-> s, d |-> 1]

IsNaN(a) == a.k = "nan"

IsZero(a) == a.k = "fin" /\ a.n = 0

\* a + b
FAdd(a, b) ==
    IF IsNaN(a) \/ IsNaN(b) THEN NaN
    ELSE IF a.k = "inf" /\ b.k = "inf" THEN (IF a.n = b.n THEN a ELSE NaN)
    ELSE IF a.k = "inf" THEN a
    ELSE IF b.k = "inf" THEN b
    ELSE Fin(a.n * b.d + b.n * a.d, a.d * b.d)

\* a - b
FSub(a, b) ==
    IF IsNaN(a) \/ IsNaN(b) THEN NaN
    ELSE IF a.k = "inf" /\ b.k = "inf" THEN (IF a.n # b.n THEN a ELSE NaN)
    ELSE IF a.k = "inf" THEN a
    ELSE IF b.k = "inf" THEN Inf(-b.n)
    ELSE Fin(a.n * b.d - b.n * a.d, a.d * b.d)

\* a * b
FMul(a, b) ==
    IF IsNaN(a) \/ IsNaN(b) THEN NaN
    ELSE IF a.k = "inf" \/ b.k = "inf"
         THEN (IF IsZero(a) \/ IsZero(b) THEN NaN ELSE Inf(Sign(a.n) * Sign(b.n)))
    ELSE Fin(a.n * b.n, a.d * b.d)

\* a / b for b # 0 (Python raises ZeroDivisionError for b = 0: see execute_operation)
FDiv(a, b) ==
    IF IsNaN(a) \/ IsNaN(b) THEN NaN
    ELSE IF a.k = "inf" /\ b.k = "inf" THEN NaN
    ELSE IF a.k = "inf" THEN Inf(IF Sign(b.n) < 0 THEN -a.n ELSE a.n)
    ELSE IF b.k = "inf" THEN Fin(0, 1)
    ELSE Fin(a.n * b.d, a.d * b.n)

\* a == b: nan equals nothing, itself included
FEq(a, b) == ~IsNaN(a) /\ ~IsNaN(b) /\ a = b

\* a < b: every comparison with nan is False
FLt(a, b) ==
    IF IsNaN(a) \/ IsNaN(b) THEN FALSE
    ELSE IF a.k = "inf" THEN a.n < 0 /\ b # a
    ELSE IF b.k = "inf" THEN b.n > 0
    ELSE a.n * b.d < b.n * a.d

\* min(a, b) of two arguments: the first unless the second is smaller
PyMin(a, b) == IF FLt(b, a) THEN b ELSE a

\* max(a, b) of two arguments: the first unless the second is greater
PyMax(a, b) == IF FLt(a, b) THEN b ELSE a

(***************************************************************************)
(* Lines of text typed at the terminal.                                    *)
(***************************************************************************)
Whitespace == {" "}

Digits == {"0", "1", "2", "3", "4", "5", "6", "7", "8", "9"}

RECURSIVE LStrip(_)
LStrip(s) == IF s # <<>> /\ Head(s) \in Whitespace THEN LStrip(Tail(s)) ELSE s

RECURSIVE RStrip(_)
RStrip(s) ==
    IF s # <<>> /\ s[Len(s)] \in Whitespace THEN RStrip(SubSeq(s, 1, Len(s) - 1)) ELSE s

\* str.strip()
Strip(s) == RStrip(LStrip(s))

DigitValue(c) ==
    CASE c = "0" -> 0 [] c = "1" -> 1 [] c = "2" -> 2 [] c = "3" -> 3 [] c = "4" -> 4
      [] c = "5" -> 5 [] c = "6" -> 6 [] c = "7" -> 7 [] c = "8" -> 8 [] c = "9" -> 9

RECURSIVE DigitsValue(_)
DigitsValue(s) ==
    IF s = <<>> THEN 0
    ELSE 10 * DigitsValue(SubSeq(s, 1, Len(s) - 1)) + DigitValue(s[Len(s)])

IsDigits(s) == s # <<>> /\ \A i \in 1..Len(s) : s[i] \in Digits

HasSign(s) == s # <<>> /\ Head(s) \in {"+", "-"}

Unsigned(s) == IF HasSign(s) THEN Tail(s) ELSE s

SignOf(s) == IF HasSign(s) /\ Head(s) = "-" THEN -1 ELSE 1

\* what float(text) and int(text) raise for a text that is no number
ValueError == [k |-> "ValueError", n |-> 0, d |-> 1]

\* float(text), for texts of blanks, a sign, decimal digits, "inf" and "nan"
ParseFloat(text) ==
    LET s == Strip(text)
        body == Unsigned(s)
    IN  IF body = <<"n", "a", "n">> THEN NaN
        ELSE IF body = <<"i", "n", "f">> THEN Inf(SignOf(s))
        ELSE IF IsDigits(body) THEN Fin(SignOf(s) * DigitsValue(body), 1)
        ELSE ValueError

\* int(text), for texts of blanks, a sign and decimal digits
ParseInt(text) ==
    LET s == Strip(text)
        body == Unsigned(s)
    IN  IF IsDigits(body) THEN Fin(SignOf(s) * DigitsValue(body), 1) ELSE ValueError

\* The lines the user types at the menu, at a number prompt, at the operation
\* prompt and at the day prompt.
MenuTexts ==
    { <<"1">>, <<"2">>, <<" ", "3">>, <<"4">>, <<"5">>, <<"6", " ">>, <<"7">>, <<>> }

NumberTexts == { <<" ", "2">>, <<"0">>, <<"n", "a", "n">>, <<"x">>, <<>> }

OperationTexts ==
    { <<"+">>, <<"-">>, <<" ", "*", " ">>, <<"/">>,
      <<"1">>, <<"2">>, <<"3">>, <<"4", " ">>, <<"5">>, <<"x">>, <<>> }

DayTexts ==
    { <<"3", "1">>, <<" ", "1">>, <<"2">>, <<"0">>, <<"3", "2">>, <<"-", "1">>,
      <<"x">>, <<>> }

(***************************************************************************)
(* The functions of calculator.py.                                         *)
(***************************************************************************)
Operations == { <<"+">>, <<"-">>, <<"*">>, <<"/">> }

\* operation_map.get(operation_input, operation_input)
MapOperation(operation_input) ==
    IF operation_input = <<"1">> THEN <<"+">>
    ELSE IF operation_input = <<"2">> THEN <<"-">>
    ELSE IF operation_input = <<"3">> THEN <<"*">>
    ELSE IF operation_input = <<"4">> THEN <<"/">>
    ELSE operation_input

\* the operation prompt left with any text that is not empty
IsValidOperationAnyText(op) == op # <<>>

\* the test that ends the operation prompt's loop
IsValidOperation(op) == op \in Operations

\* validate_inputs without its test of the divisor
ValidateInputsUnchecked(n1, n2, op) == TRUE

\* validate_inputs
ValidateInputs(n1, n2, op) == ~(op = <<"/">> /\ FEq(n2, Fin(0, 1)))

\* the exceptions execute_operation ends with
ZeroDivisionError == [k |-> "ZeroDivisionError", n |-> 0, d |-> 1]

UnknownOperation == [k |-> "ValueError: Unknown operation", n |-> 0, d |-> 1]

IsFloat(r) == r.k \in {"fin", "inf", "nan"}

\* execute_operation with the operands of '-' exchanged
ExecuteOperationSwapped(n1, n2, op) ==
    IF op = <<"+">> THEN FAdd(n1, n2)
    ELSE IF op = <<"-">> THEN FSub(n2, n1)
    ELSE IF op = <<"*">> THEN FMul(n1, n2)
    ELSE IF op = <<"/">> THEN (IF IsZero(n2) THEN ZeroDivisionError ELSE FDiv(n1, n2))
    ELSE UnknownOperation

\* execute_operation: the float it returns, or the exception it raises
ExecuteOperation(n1, n2, op) ==
    IF op = <<"+">> THEN FAdd(n1, n2)
    ELSE IF op = <<"-">> THEN FSub(n1, n2)
    ELSE IF op = <<"*">> THEN FMul(n1, n2)
    ELSE IF op = <<"/">> THEN (IF IsZero(n2) THEN ZeroDivisionError ELSE FDiv(n1, n2))
    ELSE UnknownOperation

\* the statistics update_daily_stats gives a day it has not seen
NewStats ==
    [count |-> 0, sum |-> Fin(0, 1), min |-> Inf(1), max |-> Inf(-1), average |-> Fin(0, 1)]

\* a dictionary is a function on its keys; setdefault(key, value)
WithKey(dict, key, value) ==
    [x \in (DOMAIN dict) \cup {key} |-> IF x \in DOMAIN dict THEN dict[x] ELSE value]

\* update_daily_stats without the statistics of a new day
UpdateDailyStatsKnownDay(stats_dict, day, result) ==
    IF day \notin DOMAIN stats_dict THEN stats_dict
    ELSE LET stats == stats_dict[day]
             count == stats.count + 1
             sum == FAdd(stats.sum, result)
         IN  [stats_dict EXCEPT ![day] =
                 [count |-> count,
                  sum |-> sum,
                  min |-> PyMin(stats.min, result),
                  max |-> PyMax(stats.max, result),
                  average |-> FDiv(sum, Fin(count, 1))]]

\* update_daily_stats, as a function of the dictionary daily_stats
UpdateDailyStats(stats_dict, day, result) ==
    LET dict == WithKey(stats_dict, day, NewStats)
        stats == dict[day]
        count == stats.count + 1
        sum == FAdd(stats.sum, result)
    IN  [dict EXCEPT ![day] =
            [count |-> count,
             sum |-> sum,
             min |-> PyMin(stats.min, result),
             max |-> PyMax(stats.max, result),
             average |-> FDiv(sum, Fin(count, 1))]]

\* the record store_calculation builds
CalculationRecord(timestamp, n1, n2, op, result) ==
    [timestamp |-> timestamp, num1 |-> n1, num2 |-> n2,
     operation |-> op, result |-> result]

\* store_calculation with the record put first: insert(0, record)
PrependRecord(history, current_day, calculation_record) ==
    LET dict == WithKey(history, current_day, <<>>)
    IN  [dict EXCEPT ![current_day] = <<calculation_record>> \o @]

\* store_calculation's update of calculation_history
AppendRecord(history, current_day, calculation_record) ==
    LET dict == WithKey(history, current_day, <<>>)
    IN  [dict EXCEPT ![current_day] = Append(@, calculation_record)]

\* Instants of the system clock: TicksPerDay instants make a day, and the
\* instant 0 lies in the last day of a month of MaxDay days.
TicksPerDay == 2

\* datetime.datetime.now().day when the clock reads c
DayOf(c) == ((MaxDay - 1 + (c \div TicksPerDay)) % MaxDay) + 1

\* what a read of the clock can return when the last read returned c
ClockReads(c) == c..MaxClock

\* no float: the value of a local variable that is not assigned
Unset == [k |-> "unset", n |-> 0, d |-> 1]

\* no text: the value of a local variable that is not assigned
NoText == <<"unassigned">>

\* ev when execute_operation is not called on its own
NoCall == [a |-> Unset, b |-> Unset, op |-> NoText, res |-> Unset, state |-> "idle"]

(***************************************************************************)
(* The interactive session: main and the functions it calls.               *)
(***************************************************************************)
Init ==
    /\ calculation_history = [d \in {} |-> <<>>]
    /\ daily_stats = [d \in {} |-> NewStats]
    /\ pc = "MenuWait"
    /\ choice = NoText
    /\ num1 = Unset
    /\ num2 = Unset
    /\ operation = NoText
    /\ clock = 0
    /\ output = "none"
    /\ lines = 0
    /\ ev = NoCall

store == <<calculation_history, daily_stats>>

locals == <<num1, num2, operation>>

\* input() returns one more line
ReadLine == lines < MaxLines /\ lines' = lines + 1

\* display_daily_history(day): what it prints
DisplayDailyHistory(day) ==
    IF day \in DOMAIN calculation_history THEN "day_history" ELSE "no_calculations_for_day"

\* choice '1': get_user_inputs starts and prompts for the first number
ChooseCalculation(text) ==
    /\ pc = "MenuWait"
    /\ ReadLine
    /\ Strip(text) = <<"1">>
    /\ choice' = Strip(text)
    /\ pc' = "Num1Prompt"
    /\ num1' = Unset
    /\ num2' = Unset
    /\ operation' = NoText
    /\ output' = "calculator_banner"
    /\ UNCHANGED <<store, clock, ev>>

\* the first number's loop: one line read
EnterFirstNumber(text) ==
    /\ pc = "Num1Prompt"
    /\ ReadLine
    /\ IF IsFloat(ParseFloat(text))
       THEN /\ num1' = ParseFloat(text)
            /\ pc' = "Num2Prompt"
            /\ UNCHANGED output
       ELSE /\ output' = "number_error"
            /\ UNCHANGED <<num1, pc>>
    /\ UNCHANGED <<store, choice, num2, operation, clock, ev>>

\* the second number's loop: one line read; then the operations are listed
EnterSecondNumber(text) ==
    /\ pc = "Num2Prompt"
    /\ ReadLine
    /\ IF IsFloat(ParseFloat(text))
       THEN /\ num2' = ParseFloat(text)
            /\ pc' = "OperationPrompt"
            /\ output' = "available_operations"
       ELSE /\ output' = "number_error"
            /\ UNCHANGED <<num2, pc>>
    /\ UNCHANGED <<store, choice, num1, operation, clock, ev>>

\* store_calculation: the day is read from the clock, then the timestamp
StoreCalculation(n1, n2, op, result) ==
    \E day_read \in ClockReads(clock) :
        \E timestamp_read \in ClockReads(day_read) :
            LET current_day == DayOf(day_read)
                calculation_record == CalculationRecord(timestamp_read, n1, n2, op, result)
            IN  /\ calculation_history' =
                       AppendRecord(calculation_history, current_day, calculation_record)
                /\ daily_stats' = UpdateDailyStats(daily_stats, current_day, result)
                /\ clock' = timestamp_read

\* the operation's loop: one line read; with a valid operation get_user_inputs
\* returns and main validates, executes, displays and stores
EnterOperation(text) ==
    /\ pc = "OperationPrompt"
    /\ ReadLine
    /\ operation' = MapOperation(Strip(text))
    /\ IF ~IsValidOperation(operation')
       THEN /\ output' = "operation_error"
            /\ UNCHANGED <<pc, store, clock>>
       ELSE IF ~ValidateInputs(num1, num2, operation')
       THEN /\ output' = "division_by_zero"
            /\ pc' = "MenuWait"
            /\ UNCHANGED <<store, clock>>
       ELSE IF ~IsFloat(ExecuteOperation(num1, num2, operation'))
       THEN /\ output' = ExecuteOperation(num1, num2, operation').k
            /\ pc' = "Exited"
            /\ UNCHANGED <<store, clock>>
       ELSE /\ output' = "result"
            /\ pc' = "MenuWait"
            /\ StoreCalculation(num1, num2, operation',
                                ExecuteOperation(num1, num2, operation'))
    /\ UNCHANGED <<choice, num1, num2, ev>>

\* a KeyboardInterrupt that arrives inside store_calculation, after the record
\* is appended and before update_daily_stats is called
InterruptedStore(text) ==
    /\ pc = "OperationPrompt"
    /\ ReadLine
    /\ operation' = MapOperation(Strip(text))
    /\ IsValidOperation(operation')
    /\ ValidateInputs(num1, num2, operation')
    /\ IsFloat(ExecuteOperation(num1, num2, operation'))
    /\ \E day_read \in ClockReads(clock) :
           \E timestamp_read \in ClockReads(day_read) :
               /\ calculation_history' =
                      AppendRecord(calculation_history, DayOf(day_read),
                          CalculationRecord(timestamp_read, num1, num2, operation',
                              ExecuteOperation(num1, num2, operation')))
               /\ clock' = timestamp_read
    /\ pc' = "Exited"
    /\ output' = "terminated"
    /\ UNCHANGED <<daily_stats, choice, num1, num2, ev>>

\* choice '2': today's calculations
ViewToday(text) ==
    /\ pc = "MenuWait"
    /\ ReadLine
    /\ Strip(text) = <<"2">>
    /\ choice' = Strip(text)
    /\ \E current_day_read \in ClockReads(clock) :
           /\ clock' = current_day_read
           /\ output' = DisplayDailyHistory(DayOf(current_day_read))
    /\ UNCHANGED <<store, pc, locals, ev>>

\* choice '3': the day is asked for
ChooseDay(text) ==
    /\ pc = "MenuWait"
    /\ ReadLine
    /\ Strip(text) = <<"3">>
    /\ choice' = Strip(text)
    /\ pc' = "DayPrompt"
    /\ UNCHANGED <<store, locals, clock, output, ev>>

\* the day prompt with a history that makes a key of every day it is asked for
EnterDayMakingKey(text) ==
    /\ pc = "DayPrompt"
    /\ ReadLine
    /\ pc' = "MenuWait"
    /\ output' =
           IF ParseInt(text) = ValueError THEN "day_number_error"
           ELSE IF MinDay <= ParseInt(text).n /\ ParseInt(text).n <= MaxDay
           THEN "day_history"
           ELSE "day_range_error"
    /\ calculation_history' =
           IF ParseInt(text) # ValueError
                  /\ MinDay <= ParseInt(text).n /\ ParseInt(text).n <= MaxDay
           THEN WithKey(calculation_history, ParseInt(text).n, <<>>)
           ELSE calculation_history
    /\ UNCHANGED <<daily_stats, choice, locals, clock, ev>>

\* choice '3', the line read at the day prompt
EnterDay(text) ==
    /\ pc = "DayPrompt"
    /\ ReadLine
    /\ pc' = "MenuWait"
    /\ output' =
           IF ParseInt(text) = ValueError THEN "day_number_error"
           ELSE IF MinDay <= ParseInt(text).n /\ ParseInt(text).n <= MaxDay
           THEN DisplayDailyHistory(ParseInt(text).n)
           ELSE "day_range_error"
    /\ UNCHANGED <<store, choice, locals, clock, ev>>

\* choice '4': display_daily_history() of every day
ViewAll(text) ==
    /\ pc = "MenuWait"
    /\ ReadLine
    /\ Strip(text) = <<"4">>
    /\ choice' = Strip(text)
    /\ output' = IF DOMAIN calculation_history # {} THEN "all_history" ELSE "no_history"
    /\ UNCHANGED <<store, pc, locals, clock, ev>>

\* choice '5': the statistics of every day
ViewStatistics(text) ==
    /\ pc = "MenuWait"
    /\ ReadLine
    /\ Strip(text) = <<"5">>
    /\ choice' = Strip(text)
    /\ output' = IF DOMAIN daily_stats # {} THEN "daily_statistics" ELSE "no_statistics"
    /\ UNCHANGED <<store, pc, locals, clock, ev>>

\* choice '6' without the break
ChooseExitNoBreak(text) ==
    /\ pc = "MenuWait"
    /\ ReadLine
    /\ Strip(text) = <<"6">>
    /\ choice' = Strip(text)
    /\ output' = "farewell"
    /\ UNCHANGED <<store, pc, locals, clock, ev>>

\* choice '6': the farewell and the break out of the loop
ChooseExit(text) ==
    /\ pc = "MenuWait"
    /\ ReadLine
    /\ Strip(text) = <<"6">>
    /\ choice' = Strip(text)
    /\ pc' = "Exited"
    /\ output' = "farewell"
    /\ UNCHANGED <<store, locals, clock, ev>>

MenuChoices == { <<"1">>, <<"2">>, <<"3">>, <<"4">>, <<"5">>, <<"6">> }

\* any other choice
InvalidChoice(text) ==
    /\ pc = "MenuWait"
    /\ ReadLine
    /\ Strip(text) \notin MenuChoices
    /\ choice' = Strip(text)
    /\ output' = "invalid_choice"
    /\ UNCHANGED <<store, pc, locals, clock, ev>>

\* KeyboardInterrupt while main waits for a line: the handler around the loop
Interrupt ==
    /\ pc # "Exited"
    /\ pc' = "Exited"
    /\ output' = "terminated"
    /\ UNCHANGED <<store, choice, locals, clock, lines, ev>>

\* EOFError caught inside the loop: the menu comes back
EndOfInputInsideLoop ==
    /\ pc # "Exited"
    /\ pc' = "MenuWait"
    /\ output' = "EOFError"
    /\ UNCHANGED <<store, choice, locals, clock, lines, ev>>

\* input() raises EOFError when the terminal is closed: an exception that is
\* no KeyboardInterrupt, caught by the handler around the loop
EndOfInput ==
    /\ pc # "Exited"
    /\ pc' = "Exited"
    /\ output' = "EOFError"
    /\ UNCHANGED <<store, choice, locals, clock, lines, ev>>

\* the messages of the handler "An unexpected error occurred"
UnexpectedErrors == {"EOFError", "ZeroDivisionError", "ValueError: Unknown operation"}

Next ==
    \/ \E text \in MenuTexts : ChooseCalculation(text)
    \/ \E text \in NumberTexts : EnterFirstNumber(text)
    \/ \E text \in NumberTexts : EnterSecondNumber(text)
    \/ \E text \in OperationTexts : EnterOperation(text)
    \/ \E text \in OperationTexts : InterruptedStore(text)
    \/ \E text \in MenuTexts : ViewToday(text)
    \/ \E text \in MenuTexts : ChooseDay(text)
    \/ \E text \in DayTexts : EnterDay(text)
    \/ \E text \in MenuTexts : ViewAll(text)
    \/ \E text \in MenuTexts : ViewStatistics(text)
    \/ \E text \in MenuTexts : ChooseExit(text)
    \/ \E text \in MenuTexts : InvalidChoice(text)
    \/ Interrupt
    \/ EndOfInput

Spec == Init /\ [][Next]_vars

(***************************************************************************)
(* execute_operation called on its own, with any two floats and any        *)
(* operation text: SpecEval.                                               *)
(***************************************************************************)
EvalFloats ==
    { Fin(0, 1), Fin(1, 1), Fin(-2, 1), Fin(3, 1), Fin(1, 2), Fin(-5, 3),
      Inf(1), Inf(-1), NaN }

EvalOperations == Operations \cup { <<"%">>, <<"1">>, <<"+", "+">>, <<>> }

InitEval ==
    /\ calculation_history = [d \in {} |-> <<>>]
    /\ daily_stats = [d \in {} |-> NewStats]
    /\ pc = "MenuWait"
    /\ choice = NoText
    /\ num1 = Unset
    /\ num2 = Unset
    /\ operation = NoText
    /\ clock = 0
    /\ output = "none"
    /\ lines = 0
    /\ \E a \in EvalFloats, b \in EvalFloats, op \in EvalOperations :
           ev = [a |-> a, b |-> b, op |-> op, res |-> Unset, state |-> "called"]

\* the call returns, or raises
Evaluate ==
    /\ ev.state = "called"
    /\ ev' = [ev EXCEPT !.res = ExecuteOperation(ev.a, ev.b, ev.op),
                        !.state = "returned"]
    /\ UNCHANGED <<store, pc, choice, locals, clock, output, lines>>

NextEval == Evaluate

SpecEval == InitEval /\ [][NextEval]_vars

(***************************************************************************)
(* The claims.                                                             *)
(***************************************************************************)
AtMenu == pc = "MenuWait"

Days == DOMAIN calculation_history

\* the results recorded for day d, in the order of their records
ResultsOf(d) == [i \in 1..Len(calculation_history[d]) |-> calculation_history[d][i].result]

\* r1 + ... + rN, added from the left, for N >= 1
RECURSIVE SumOf(_)
SumOf(rs) ==
    IF Len(rs) = 1 THEN rs[1]
    ELSE FAdd(SumOf(SubSeq(rs, 1, Len(rs) - 1)), rs[Len(rs)])

IsSmallestOf(m, rs) ==
    /\ \E i \in 1..Len(rs) : rs[i] = m
    /\ \A i \in 1..Len(rs) : ~FLt(rs[i], m)

IsLargestOf(m, rs) ==
    /\ \E i \in 1..Len(rs) : rs[i] = m
    /\ \A i \in 1..Len(rs) : ~FLt(m, rs[i])

StatsAggregate(d) ==
    LET rs == ResultsOf(d)
        stats == daily_stats[d]
    IN  /\ stats.count = Len(rs)
        /\ stats.sum = SumOf(rs)
        /\ IsSmallestOf(stats.min, rs)
        /\ IsLargestOf(stats.max, rs)
        /\ stats.average = FDiv(SumOf(rs), Fin(Len(rs), 1))
        /\ Len(rs) = 1 =>
               /\ stats.min = rs[1]
               /\ stats.max = rs[1]
               /\ stats.sum = rs[1]
               /\ stats.average = rs[1]

\* C1: whenever the shell waits at the menu, the statistics of every day with
\* records are the aggregates of the results recorded for it: count is the
\* number of records, sum their sum, min the smallest, max the largest and
\* average sum / count; after a day's first record r all four equal r.
\* (nan is taken to equal nan here, which favours the claim.)
C1_StatsAreAggregates ==
    AtMenu => \A d \in Days : Len(calculation_history[d]) > 0 =>
                  d \in DOMAIN daily_stats /\ StatsAggregate(d)

\* the same, for the days none of whose results is nan: what the code does keep
C1_StatsAreAggregatesWithoutNaN ==
    AtMenu => \A d \in Days :
                  (Len(calculation_history[d]) > 0
                      /\ \A i \in 1..Len(calculation_history[d]) : ~IsNaN(ResultsOf(d)[i]))
                  => d \in DOMAIN daily_stats /\ StatsAggregate(d)

\* C2: whenever the shell waits at the menu, daily_stats and
\* calculation_history have the same days, every day has at least one record
\* and no statistics have count 0.
C2_SameDays ==
    AtMenu =>
        /\ DOMAIN daily_stats = Days
        /\ \A d \in Days : Len(calculation_history[d]) >= 1
        /\ \A d \in DOMAIN daily_stats : daily_stats[d].count # 0

\* two days have records and statistics, and the shell waits at the menu
C2_Witness == AtMenu /\ Cardinality(Days) = 2 /\ Cardinality(DOMAIN daily_stats) = 2

\* C10: every record stored under day d carries a timestamp whose day of the
\* month is d.
C10_TimestampOnItsDay ==
    \A d \in Days : \A i \in 1..Len(calculation_history[d]) :
        DayOf(calculation_history[d][i].timestamp) = d

\* a line is read at the operation prompt, and the operation it gives is '/'
\* (typed as '/' or as the index '4') while the second number is zero
DivisionByZeroEntered ==
    pc = "OperationPrompt" /\ lines' = lines + 1
        /\ operation' = <<"/">> /\ FEq(num2, Fin(0, 1))

\* C3: division by zero is rejected by validation: the step that reads the
\* operation '/' with a zero second number prints the validation error,
\* raises nothing, leaves both dictionaries as they were and returns to the menu.
C3_DivisionByZeroRejected ==
    [][DivisionByZeroEntered =>
          /\ pc' = "MenuWait"
          /\ output' = "division_by_zero"
          /\ calculation_history' = calculation_history
          /\ daily_stats' = daily_stats]_vars

\* a division by zero was rejected in a session that has a record already
C3_Witness ==
    /\ AtMenu
    /\ output = "division_by_zero"
    /\ operation = <<"/">>
    /\ IsZero(num2)
    /\ Days # {}

\* the step is a calculation that passed validation
SuccessfulCalculation ==
    /\ pc = "OperationPrompt"
    /\ choice = <<"1">>
    /\ lines' = lines + 1
    /\ operation' \in Operations
    /\ ~(operation' = <<"/">> /\ IsZero(num2))

\* C4: only a successful calculation changes calculation_history or daily_stats:
\* the views, the day prompt with any line, the exit, an unrecognized choice and
\* every re-prompt leave both as they were.
C4_OnlyCalculationChangesStore ==
    [][(calculation_history' # calculation_history \/ daily_stats' # daily_stats)
          => SuccessfulCalculation]_vars

\* a day without records was asked for while another day has records
C4_Witness == AtMenu /\ output = "no_calculations_for_day" /\ Days # {}

\* the step raises an exception that is no KeyboardInterrupt
UnexpectedFailure == pc # "Exited" /\ output' \in UnexpectedErrors

\* C5 as stated: after an unexpected failure the shell is back at the menu.
C5_FailureReturnsToMenu == [][UnexpectedFailure => pc' = "MenuWait"]_vars

\* C5 as amended: an unexpected failure is caught and reported, and it ends the
\* session: the shell is Exited, with both dictionaries as they were.
C5_FailureEndsSession ==
    [][UnexpectedFailure =>
          /\ pc' = "Exited"
          /\ calculation_history' = calculation_history
          /\ daily_stats' = daily_stats]_vars

\* the terminal was closed in a session that has a record
C5_Witness == pc = "Exited" /\ output = "EOFError" /\ Days # {}

\* C6: Exited is terminal: choice '6' at the menu leads to Exited, a user
\* interrupt leads to Exited from every other state and can arrive in each of
\* them, and nothing changes once Exited.
C6_ExitedIsTerminal ==
    /\ [](pc # "Exited" => ENABLED Interrupt)
    /\ [][/\ (pc = "MenuWait" /\ lines' = lines + 1 /\ choice' = <<"6">>)
               => (pc' = "Exited" /\ output' = "farewell")
          /\ (pc # "Exited" /\ output' = "terminated") => pc' = "Exited"
          /\ pc = "Exited" => vars' = vars]_vars

\* the session was left by choice '6' with a record stored
C6_Witness == pc = "Exited" /\ output = "farewell" /\ choice = <<"6">> /\ Days # {}

\* the records of day d, the empty sequence when the day is no key
SeqOf(history, d) == IF d \in DOMAIN history THEN history[d] ELSE <<>>

\* one record is appended for day d and everything else of both dictionaries
\* is as it was
AppendsOneRecordTo(d) ==
    /\ DOMAIN calculation_history' = Days \cup {d}
    /\ calculation_history'[d] =
           Append(SeqOf(calculation_history, d),
               CalculationRecord(calculation_history'[d][Len(calculation_history'[d])].timestamp,
                   num1, num2, operation', ExecuteOperation(num1, num2, operation')))
    /\ \A e \in Days \ {d} : calculation_history'[e] = calculation_history[e]
    /\ DOMAIN daily_stats \subseteq DOMAIN daily_stats'
    /\ DOMAIN daily_stats' \subseteq DOMAIN daily_stats \cup {d}
    /\ \A e \in DOMAIN daily_stats \ {d} : daily_stats'[e] = daily_stats[e]

\* C7: a calculation that succeeds appends exactly one record, at the end of
\* the sequence of the day the clock reads during the calculation; the records
\* already there keep their content and order, and the records and statistics
\* of every other day are unchanged.
C7_AppendsOneRecord ==
    [][/\ (pc = "OperationPrompt" /\ pc' = "MenuWait" /\ output' = "result")
              => calculation_history' # calculation_history
       /\ calculation_history' # calculation_history
              => \E c \in clock..clock' : AppendsOneRecordTo(DayOf(c))]_vars

\* a day holds two records
C7_Witness == AtMenu /\ \E d \in Days : Len(calculation_history[d]) = 2

\* the operations by index, in the order of the menu
OperationOfIndex ==
    << <<"+">>, <<"-">>, <<"*">>, <<"/">> >>

IndexText == << <<"1">>, <<"2">>, <<"3">>, <<"4">> >>

\* C8: the operation prompt is left only with one of the four symbols, an index
\* giving the symbol of its place: every operation that was validated, executed
\* or recorded is one of the four, and "Unknown operation" is never raised.
C8_OperationIsOneOfFour ==
    /\ [](/\ output # "ValueError: Unknown operation"
          /\ pc \in {"MenuWait", "DayPrompt"} /\ operation # NoText
                => operation \in Operations
          /\ \A d \in Days : \A i \in 1..Len(calculation_history[d]) :
                calculation_history[d][i].operation \in Operations)
    /\ [][/\ (pc = "OperationPrompt" /\ lines' = lines + 1 /\ pc' # pc)
                => operation' \in Operations
          /\ \A i \in 1..4 : EnterOperation(IndexText[i])
                => operation' = OperationOfIndex[i]]_vars

\* a multiplication went through the prompt and was recorded
C8_Witness ==
    /\ AtMenu
    /\ output = "result"
    /\ operation = <<"*">>
    /\ \E d \in Days : \E i \in 1..Len(calculation_history[d]) :
           calculation_history[d][i].operation = <<"*">>

\* the sign of a float that is no nan: -1, 0 or 1
Signum(a) == Sign(a.n)

\* r is the quotient p / q of two integers, q # 0
IsQuotient(r, p, q) == r.k = "fin" /\ r.d > 0 /\ r.n * q = p * r.d

\* r is a op b in the arithmetic of the rationals, for finite a and b
IsExactResult(a, b, op, r) ==
    IF op = <<"+">> THEN IsQuotient(r, a.n * b.d + b.n * a.d, a.d * b.d)
    ELSE IF op = <<"-">> THEN IsQuotient(r, a.n * b.d - b.n * a.d, a.d * b.d)
    ELSE IF op = <<"*">> THEN IsQuotient(r, a.n * b.n, a.d * b.d)
    ELSE IsQuotient(r, a.n * b.d, a.d * b.n)

\* r is a op b by the rules of IEEE 754 for an infinite a or b, neither a nan
IsInfiniteResult(a, b, op, r) ==
    LET sb == IF op = <<"-">> THEN -Signum(b) ELSE Signum(b)
        signs == {Signum(x) : x \in {y \in {a} : y.k = "inf"}}
                     \cup {sb : x \in {y \in {b} : y.k = "inf"}}
    IN  IF op \in {<<"+">>, <<"-">>}
        THEN IF Cardinality(signs) = 1 THEN \A sg \in signs : r = Inf(sg) ELSE IsNaN(r)
        ELSE IF op = <<"*">>
        THEN IF Signum(a) = 0 \/ Signum(b) = 0 THEN IsNaN(r)
             ELSE r = Inf(Signum(a) * Signum(b))
        ELSE IF a.k = "inf" /\ b.k = "inf" THEN IsNaN(r)
        ELSE IF a.k = "inf" THEN r = Inf(Signum(a) * Signum(b))
        ELSE IsZero(r)

IsStandardResult(a, b, op, r) ==
    IF a.k = "nan" \/ b.k = "nan" THEN IsNaN(r)
    ELSE IF a.k = "inf" \/ b.k = "inf" THEN IsInfiniteResult(a, b, op, r)
    ELSE IsExactResult(a, b, op, r)

\* C9: execute_operation returns a op b for each of the four operations (b # 0
\* for '/'), raises "Unknown operation" for every other operation text, and
\* changes neither dictionary.
C9_ExecuteOperationIsArithmetic ==
    ev.state = "returned" =>
        /\ (ev.op \in {<<"+">>, <<"-">>, <<"*">>, <<"/">>}
               /\ ~(ev.op = <<"/">> /\ ev.b.k = "fin" /\ ev.b.n = 0))
              => IsStandardResult(ev.a, ev.b, ev.op, ev.res)
        /\ ev.op \notin {<<"+">>, <<"-">>, <<"*">>, <<"/">>}
              => ev.res.k = "ValueError: Unknown operation"
        /\ DOMAIN calculation_history = {}
        /\ DOMAIN daily_stats = {}

\* 1/2 divided by -5/3 gave -3/10
C9_Witness ==
    /\ ev.state = "returned"
    /\ ev.op = <<"/">>
    /\ ev.a = [k |-> "fin", n |-> 1, d |-> 2]
    /\ ev.b = [k |-> "fin", n |-> -5, d |-> 3]
    /\ ev.res = [k |-> "fin", n |-> -3, d |-> 10]

====
